---- MODULE Spec2Model ----
(***************************************************************************)
(* OAuth credential lifecycle of the telepost API: the per-handler OAuth   *)
(* state table (AuthHandlerBase.states), the encrypted credential store    *)
(* (Database, table users) and the Threads / Twitter auth handlers.        *)
(*                                                                         *)
(* Every handler is an `async def` whose only awaits are calls of the      *)
(* Database coroutines, which contain no await themselves (psycopg2 is     *)
(* synchronous), so on the event loop a handler runs from entry to return  *)
(* without yielding: one action per handler call.                          *)
(***************************************************************************)
EXTENDS Integers, Sequences, FiniteSets, TLC

\* ---------------------------------------------------------------- bounds
\* Number of csrf state values the provider libraries hand out in a run.
MaxStates == 2

\* ------------------------------------------------------------- vocabulary
Providers == {"threads", "twitter"}
\* External (Telegram) user ids that issue requests.
Users == {"u1", "u2"}
\* params.get('user_id') of a request without the parameter.
NoneId == "None"
\* user_id= given but empty.
EmptyId == ""
\* params.get('state') of a callback without the parameter / no verifier.
None == 0
\* The credential payloads a provider token endpoint returns.
Tokens == {"tokA", "tokB"}
\* Every value the user_id query parameter takes.
UserIdParams == Users \cup {NoneId, EmptyId}
\* Every value the state query parameter takes.
StateParams == 0..MaxStates

\* Mutant: only a missing parameter is rejected, not an empty one.
not_user_id_none_only(user_id) == user_id = NoneId

\* Python truthiness of a user id (`if not user_id`).
not_user_id(user_id) == user_id \in {NoneId, EmptyId}

\* ------------------------------------------------- python / json values
PyNone == [t |-> "None"]
\* The dict a token endpoint returns.
PyDict(n) == [t |-> "dict", id |-> n]
\* A pythreads Credentials object.
PyCredentials(n) == [t |-> "Credentials", id |-> n]
\* json.dumps / json.loads: a str holding the encoding of v.
json_dumps(v) == [t |-> "str", json |-> v]
json_loads(s) == s.json
\* Credentials.to_json(): the JSON text of the object's fields.
to_json(c) == json_dumps(PyDict(c.id))
\* `if not credentials`
not_credentials(c) == c = PyNone

\* SQL NULL of a {provider}_credentials column.
NULL == [t |-> "null"]

VARIABLES
    states,     \* states[p]: AuthHandlerBase.states of handler p (a dict)
    users,      \* table users: telegram_id -> row of credential columns
    conn,       \* transaction status of the shared psycopg2 connection
    nextState,  \* next csrf state value the provider library generates
    used,       \* history: <<p, s>> for which the callback returned success
    stale,      \* history: <<p, s>> overwritten by a later authorize
    last        \* the last handler call and what it returned

vars == <<states, users, conn, nextState, used, stale, last>>

\* ------------------------------------------------------ OAuth state table
\* Mutant: an existing entry is kept instead of overwritten.
store_state_keeps_first(tbl, user_id, state, code_verifier) ==
    IF user_id \in DOMAIN tbl THEN tbl
    ELSE [x \in DOMAIN tbl \cup {user_id} |->
            IF x = user_id
            THEN [state |-> state, code_verifier |-> code_verifier]
            ELSE tbl[x]]

store_state(tbl, user_id, state, code_verifier) ==
    [x \in DOMAIN tbl \cup {user_id} |->
        IF x = user_id
        THEN [state |-> state, code_verifier |-> code_verifier]
        ELSE tbl[x]]

\* Mutant: the loop variable leaks, a miss returns the last uid scanned.
get_user_id_from_state_leaks(tbl, state) ==
    LET hits == {uid \in DOMAIN tbl : tbl[uid].state = state}
    IN  [raised |-> FALSE,
         value  |-> IF hits # {} THEN CHOOSE uid \in hits : TRUE
                    ELSE IF DOMAIN tbl = {} THEN NoneId
                    ELSE CHOOSE uid \in DOMAIN tbl : TRUE]

\* Mutant: a miss raises HTTPException(404) instead of returning None.
get_user_id_from_state_raises(tbl, state) ==
    LET hits == {uid \in DOMAIN tbl : tbl[uid].state = state}
    IN  [raised |-> hits = {},
         value  |-> IF hits = {} THEN NoneId ELSE CHOOSE uid \in hits : TRUE]

get_user_id_from_state(tbl, state) ==
    LET hits == {uid \in DOMAIN tbl : tbl[uid].state = state}
    IN  [raised |-> FALSE,
         value  |-> IF hits = {} THEN NoneId ELSE CHOOSE uid \in hits : TRUE]

\* Mutant: a miss raises HTTPException(404) instead of returning None.
get_code_verifier_from_state_raises(tbl, state) ==
    LET hits == {uid \in DOMAIN tbl : tbl[uid].state = state}
    IN  [raised |-> hits = {},
         value  |-> IF hits = {} THEN None
                    ELSE tbl[CHOOSE uid \in hits : TRUE].code_verifier]

get_code_verifier_from_state(tbl, state) ==
    LET hits == {uid \in DOMAIN tbl : tbl[uid].state = state}
    IN  [raised |-> FALSE,
         value  |-> IF hits = {} THEN None
                    ELSE tbl[CHOOSE uid \in hits : TRUE].code_verifier]

\* Mutant: the entry is reported cleared but left in the dict.
clear_state_keeps(tbl, user_id) ==
    [raised |-> user_id \notin DOMAIN tbl, states |-> tbl]

\* Mutant: clearing one user's entry clears the whole table.
clear_state_everyone(tbl, user_id) ==
    IF user_id \in DOMAIN tbl
    THEN [raised |-> FALSE, states |-> [x \in {} |-> tbl[x]]]
    ELSE [raised |-> TRUE, states |-> tbl]

clear_state(tbl, user_id) ==
    IF user_id \in DOMAIN tbl
    THEN [raised |-> FALSE, states |-> [x \in DOMAIN tbl \ {user_id} |-> tbl[x]]]
    ELSE [raised |-> TRUE, states |-> tbl]

\* ------------------------------------------------------- credential store
\* What can go wrong in one Database call.
Faults == {"ok", "crypto", "sql"}

encrypt_data(data) == [t |-> "fernet", plain |-> json_dumps(data)]
decrypt_data(encrypted_data) ==
    IF encrypted_data = NULL THEN PyNone ELSE json_loads(encrypted_data.plain)

EmptyRow == [p \in Providers |-> NULL]
\* An empty dict / an empty table.
EmptyDict == [x \in {} |-> NULL]

\* cur.execute on the shared connection: fails in an aborted transaction.
execute_fails(c, fault) == c = "aborted" \/ fault = "sql"

\* Mutant: the row is written and the call raises afterwards.
db_store_written_then_raises(tbl, c, telegram_id, credentials, provider_id, fault) ==
    LET data == IF credentials.t = "Credentials" THEN to_json(credentials)
                ELSE credentials
        row  == IF telegram_id \in DOMAIN tbl THEN tbl[telegram_id] ELSE EmptyRow
        new  == [row EXCEPT ![provider_id] = encrypt_data(data)]
    IN  IF fault = "crypto"
        THEN [raised |-> TRUE, users |-> tbl, conn |-> c]
        ELSE IF c = "aborted"
        THEN [raised |-> TRUE, users |-> tbl, conn |-> "aborted"]
        ELSE [raised |-> fault = "sql",
              users  |-> [x \in DOMAIN tbl \cup {telegram_id} |->
                            IF x = telegram_id THEN new ELSE tbl[x]],
              conn   |-> "idle"]

db_store_user_credentials(tbl, c, telegram_id, credentials, provider_id, fault) ==
    LET data == IF credentials.t = "Credentials" THEN to_json(credentials)
                ELSE credentials
        row  == IF telegram_id \in DOMAIN tbl THEN tbl[telegram_id] ELSE EmptyRow
        new  == [row EXCEPT ![provider_id] = encrypt_data(data)]
    IN  IF fault = "crypto"
        THEN [raised |-> TRUE, users |-> tbl, conn |-> c]
        ELSE IF execute_fails(c, fault)
        THEN [raised |-> TRUE, users |-> tbl, conn |-> "aborted"]
        ELSE [raised |-> FALSE,
              users  |-> [x \in DOMAIN tbl \cup {telegram_id} |->
                            IF x = telegram_id THEN new ELSE tbl[x]],
              conn   |-> "idle"]

\* Mutant: a decryption failure is logged and None returned.
db_get_swallows(tbl, c, telegram_id, provider_id, fault) ==
    IF execute_fails(c, fault)
    THEN [raised |-> TRUE, value |-> PyNone, conn |-> "aborted"]
    ELSE IF telegram_id \in DOMAIN tbl /\ tbl[telegram_id][provider_id] # NULL
            /\ fault # "crypto"
    THEN [raised |-> FALSE,
          value  |-> decrypt_data(tbl[telegram_id][provider_id]),
          conn   |-> "open"]
    ELSE [raised |-> FALSE, value |-> PyNone, conn |-> "open"]

db_get_user_credentials(tbl, c, telegram_id, provider_id, fault) ==
    IF execute_fails(c, fault)
    THEN [raised |-> TRUE, value |-> PyNone, conn |-> "aborted"]
    ELSE IF telegram_id \in DOMAIN tbl /\ tbl[telegram_id][provider_id] # NULL
    THEN IF fault = "crypto"
         THEN [raised |-> TRUE, value |-> PyNone, conn |-> "open"]
         ELSE [raised |-> FALSE,
               value  |-> decrypt_data(tbl[telegram_id][provider_id]),
               conn   |-> "open"]
    ELSE [raised |-> FALSE, value |-> PyNone, conn |-> "open"]

\* Mutant: DELETE FROM users, the whole row goes.
db_delete_row(tbl, c, telegram_id, provider_id, fault) ==
    IF execute_fails(c, fault)
    THEN [raised |-> TRUE, users |-> tbl, conn |-> "aborted"]
    ELSE [raised |-> FALSE,
          users  |-> [x \in DOMAIN tbl \ {telegram_id} |-> tbl[x]],
          conn   |-> "idle"]

db_delete_user_credentials(tbl, c, telegram_id, provider_id, fault) ==
    IF execute_fails(c, fault)
    THEN [raised |-> TRUE, users |-> tbl, conn |-> "aborted"]
    ELSE [raised |-> FALSE,
          users  |-> [x \in DOMAIN tbl |->
                        IF x = telegram_id
                        THEN [tbl[x] EXCEPT ![provider_id] = NULL]
                        ELSE tbl[x]],
          conn   |-> "idle"]

\* ------------------------------------------------------------------ Init
NoCall ==
    [op |-> "none", provider |-> "none", user |-> NoneId, state |-> None,
     outcome |-> "none", clear |-> "none", db |-> <<>>, dberr |-> FALSE]

Call(op, p, user_id, state, outcome, clear, db, dberr) ==
    [op |-> op, provider |-> p, user |-> user_id, state |-> state,
     outcome |-> outcome, clear |-> clear, db |-> db, dberr |-> dberr]

Init ==
    /\ states = [p \in Providers |-> EmptyDict]
    /\ users = EmptyDict
    /\ conn = "idle"
    /\ nextState = 1
    /\ used = {}
    /\ stale = {}
    /\ last = NoCall

\* AuthHandlerBase wrappers: a Database exception becomes HTTPException(500).
get_user_credentials(provider_id, user_id, fault) ==
    db_get_user_credentials(users, conn, user_id, provider_id, fault)

store_user_credentials(provider_id, user_id, credentials, fault) ==
    db_store_user_credentials(users, conn, user_id, credentials, provider_id, fault)

delete_user_credentials(provider_id, c, user_id, fault) ==
    db_delete_user_credentials(users, c, user_id, provider_id, fault)

\* The csrf state the provider library generates for an authorization URL
\* (Threads.authorization_url / Api.get_oauth2_authorize_url): a fresh value.
NewState == nextState
\* The PKCE verifier Api.get_oauth2_authorize_url generates with the state.
NewCodeVerifier == nextState

\* The pending state an authorize call for user_id overwrites.
Overwritten(p, user_id) ==
    IF user_id \in DOMAIN states[p] THEN {<<p, states[p][user_id].state>>} ELSE {}

\* ------------------------------------------------------------- authorize
\* ThreadsAuthHandler.authorize: GET /auth/threads/connect?user_id=
ThreadsAuthorize(user_id) ==
    IF not_user_id(user_id)
    THEN /\ last' = Call("authorize", "threads", user_id, None, "http400",
                         "none", <<>>, FALSE)
         /\ UNCHANGED <<states, users, conn, nextState, used, stale>>
    ELSE /\ nextState <= MaxStates
         /\ states' = [states EXCEPT !["threads"] =
                          store_state(@, user_id, NewState, None)]
         /\ nextState' = nextState + 1
         /\ stale' = stale \cup Overwritten("threads", user_id)
         /\ last' = Call("authorize", "threads", user_id, NewState, "url",
                         "none", <<>>, FALSE)
         /\ UNCHANGED <<users, conn, used>>

\* TwitterAuthHandler.authorize: GET /auth/twitter/connect?user_id=
TwitterAuthorize(user_id) ==
    IF not_user_id(user_id)
    THEN /\ last' = Call("authorize", "twitter", user_id, None, "http400",
                         "none", <<>>, FALSE)
         /\ UNCHANGED <<states, users, conn, nextState, used, stale>>
    ELSE /\ nextState <= MaxStates
         /\ states' = [states EXCEPT !["twitter"] =
                          store_state(@, user_id, NewState, NewCodeVerifier)]
         /\ nextState' = nextState + 1
         /\ stale' = stale \cup Overwritten("twitter", user_id)
         /\ last' = Call("authorize", "twitter", user_id, NewState, "url",
                         "none", <<>>, FALSE)
         /\ UNCHANGED <<users, conn, used>>

\* -------------------------------------------------- complete_authorization
\* The try block of both callbacks once the state resolved to user_id:
\* token exchange, store_user_credentials, clear_state, success page;
\* `except Exception` turns every raise into the failure page.
TryComplete(p, state, user_id, credentials, fault) ==
    LET st == store_user_credentials(p, user_id, credentials, fault)
        cl == clear_state(states[p], user_id)
    IN  IF st.raised
        THEN /\ users' = st.users
             /\ conn' = st.conn
             /\ last' = Call("complete", p, user_id, state, "failure_page",
                             "none", <<"store">>, TRUE)
             /\ UNCHANGED <<states, nextState, used, stale>>
        ELSE /\ users' = st.users
             /\ conn' = st.conn
             /\ states' = [states EXCEPT ![p] = cl.states]
             /\ last' = Call("complete", p, user_id, state,
                             IF cl.raised THEN "failure_page" ELSE "success_page",
                             IF cl.raised THEN "raised" ELSE "deleted",
                             <<"store">>, FALSE)
             /\ used' = IF cl.raised THEN used ELSE used \cup {<<p, state>>}
             /\ UNCHANGED <<nextState, stale>>

\* The provider's token endpoint rejects the code (or the call fails).
ExchangeFails(p, state, user_id) ==
    /\ last' = Call("complete", p, user_id, state, "failure_page",
                    "none", <<>>, FALSE)
    /\ UNCHANGED <<states, users, conn, nextState, used, stale>>

\* The callback's answer when the lookup raised / found no user.
Unresolved(p, state, outcome) ==
    /\ last' = Call("complete", p, NoneId, state, outcome, "none", <<>>, FALSE)
    /\ UNCHANGED <<states, users, conn, nextState, used, stale>>

\* ThreadsAuthHandler.complete_authorization, the token endpoint answering
\* with one of the credentials in Issued.
ThreadsCallback(state_key, Issued) ==
    LET r == get_user_id_from_state(states["threads"], state_key)
    IN  IF r.raised
        THEN Unresolved("threads", state_key, "http404")
        ELSE IF not_user_id(r.value)
        THEN Unresolved("threads", state_key, "redirect")
        ELSE \/ ExchangeFails("threads", state_key, r.value)
             \/ \E credentials \in Issued, fault \in Faults :
                   TryComplete("threads", state_key, r.value, credentials,
                               fault)

\* ThreadsAuthHandler.complete_authorization: GET /auth/threads/callback
ThreadsCompleteAuthorization(state_key) ==
    ThreadsCallback(state_key, {PyCredentials(n) : n \in Tokens})

\* TwitterAuthHandler.complete_authorization, the token endpoint answering
\* with one of the token dicts in Issued.
TwitterCallback(state, Issued) ==
    LET r  == get_user_id_from_state(states["twitter"], state)
        cv == get_code_verifier_from_state(states["twitter"], state)
    IN  IF r.raised \/ cv.raised
        THEN Unresolved("twitter", state, "http404")
        ELSE IF not_user_id(r.value)
        THEN Unresolved("twitter", state, "redirect")
        ELSE \/ ExchangeFails("twitter", state, r.value)
             \/ \E credentials \in Issued, fault \in Faults :
                   TryComplete("twitter", state, r.value, credentials, fault)

\* TwitterAuthHandler.complete_authorization: GET /auth/twitter/callback
TwitterCompleteAuthorization(state) ==
    TwitterCallback(state, {PyDict(n) : n \in Tokens})

\* --------------------------------------------------------------- disconnect
\* AuthHandlerBase.disconnect, the Threads handler's POST /disconnect.
\* `await self.clear_state(user_id)` runs clear_state and then raises (either
\* clear_state's 404 or the TypeError of awaiting None); both are swallowed.
ThreadsDisconnect(user_id) ==
    LET cl    == clear_state(states["threads"], user_id)
        clear == IF cl.raised THEN "raised" ELSE "deleted"
    IN  /\ states' = [states EXCEPT !["threads"] = cl.states]
        /\ UNCHANGED <<nextState, used, stale>>
        /\ \E fault1 \in Faults :
             LET g == get_user_credentials("threads", user_id, fault1)
             IN  IF g.raised
                 THEN /\ conn' = g.conn
                      /\ users' = users
                      /\ last' = Call("disconnect", "threads", user_id, None,
                                      "status500", clear, <<"get">>, TRUE)
                 ELSE IF not_credentials(g.value)
                 THEN /\ conn' = g.conn
                      /\ users' = users
                      /\ last' = Call("disconnect", "threads", user_id, None,
                                      "status404", clear, <<"get">>, FALSE)
                 ELSE \E fault2 \in Faults \ {"crypto"} :
                        LET d == delete_user_credentials("threads", g.conn,
                                                         user_id, fault2)
                        IN  /\ conn' = d.conn
                            /\ users' = d.users
                            /\ last' = Call("disconnect", "threads", user_id, None,
                                            IF d.raised THEN "status500"
                                            ELSE "status200",
                                            clear, <<"get", "delete">>, d.raised)

\* TwitterAuthHandler.disconnect: POST /auth/twitter/disconnect
TwitterDisconnect(user_id) ==
    LET cl == clear_state(states["twitter"], user_id)
    IN  IF not_user_id(user_id)
        THEN /\ last' = Call("disconnect", "twitter", user_id, None, "http400",
                             "none", <<>>, FALSE)
             /\ UNCHANGED <<states, users, conn, nextState, used, stale>>
        ELSE IF cl.raised
        THEN /\ last' = Call("disconnect", "twitter", user_id, None, "http404",
                             "raised", <<>>, FALSE)
             /\ UNCHANGED <<states, users, conn, nextState, used, stale>>
        ELSE \E fault \in Faults \ {"crypto"} :
               LET d == db_delete_user_credentials(users, conn, user_id,
                                                   "twitter", fault)
               IN  /\ states' = [states EXCEPT !["twitter"] = cl.states]
                   /\ users' = d.users
                   /\ conn' = d.conn
                   /\ last' = Call("disconnect", "twitter", user_id, None,
                                   IF d.raised THEN "exception" ELSE "ok",
                                   "deleted", <<"delete">>, d.raised)
                   /\ UNCHANGED <<nextState, used, stale>>

\* ------------------------------------------------------------------- Next
Next ==
    \/ \E user_id \in UserIdParams : ThreadsAuthorize(user_id)
    \/ \E user_id \in UserIdParams : TwitterAuthorize(user_id)
    \/ \E s \in StateParams : ThreadsCompleteAuthorization(s)
    \/ \E s \in StateParams : TwitterCompleteAuthorization(s)
    \/ \E user_id \in UserIdParams : ThreadsDisconnect(user_id)
    \/ \E user_id \in UserIdParams : TwitterDisconnect(user_id)

Spec == Init /\ [][Next]_vars

\* ================================================= Credential Store calls
\* The payload a handler of provider p stores: a pythreads Credentials
\* object (Threads) or the token dict (Twitter).
PayloadOf(p, n) == IF p = "threads" THEN PyCredentials(n) ELSE PyDict(n)

\* One direct call of a Database method and what it returned.
StoreCall(op, p, telegram_id, arg, fault, outcome, value) ==
    [op |-> op, provider |-> p, user |-> telegram_id, arg |-> arg,
     fault |-> fault, outcome |-> outcome, value |-> value]

\* Database.store_user_credentials(telegram_id, credentials, provider_id)
DbStore(telegram_id, p, n) ==
    \E fault \in Faults :
      LET r == db_store_user_credentials(users, conn, telegram_id,
                                         PayloadOf(p, n), p, fault)
      IN  /\ users' = r.users
          /\ conn' = r.conn
          /\ last' = StoreCall("db_store", p, telegram_id, PayloadOf(p, n), fault,
                               IF r.raised THEN "raised" ELSE "ok", PyNone)
          /\ UNCHANGED <<states, nextState, used, stale>>

\* Database.get_user_credentials(telegram_id, provider_id)
DbGet(telegram_id, p) ==
    \E fault \in Faults :
      LET r == db_get_user_credentials(users, conn, telegram_id, p, fault)
      IN  /\ conn' = r.conn
          /\ last' = StoreCall("db_get", p, telegram_id, PyNone, fault,
                               IF r.raised THEN "raised" ELSE "ok", r.value)
          /\ UNCHANGED <<users, states, nextState, used, stale>>

\* Database.delete_user_credentials(telegram_id, provider_id)
DbDelete(telegram_id, p) ==
    \E fault \in Faults \ {"crypto"} :
      LET r == db_delete_user_credentials(users, conn, telegram_id, p, fault)
      IN  /\ users' = r.users
          /\ conn' = r.conn
          /\ last' = StoreCall("db_delete", p, telegram_id, PyNone, fault,
                               IF r.raised THEN "raised" ELSE "ok", PyNone)
          /\ UNCHANGED <<states, nextState, used, stale>>

NextStore ==
    \/ \E u \in Users, p \in Providers, n \in Tokens : DbStore(u, p, n)
    \/ \E u \in Users, p \in Providers : DbGet(u, p)
    \/ \E u \in Users, p \in Providers : DbDelete(u, p)

SpecStore == Init /\ [][NextStore]_vars

\* ============================================== Token expiry and refresh
\* Clock readings and stored timestamps are counted in ticks, TicksPerSecond
\* of them to the second, so that int() has a fraction to truncate.
TicksPerSecond == 2
Sec(k) == k * TicksPerSecond
\* Two readings the clock gives: an instant and the tick after it.
T0 == Sec(100000)
Clock == {T0, T0 + 1}
\* Instants an expiration marker may hold, relative to T0.
Instants ==
    {T0 - Sec(86401), T0 - Sec(86400), T0 - Sec(1), T0, T0 + 1,
     T0 + Sec(1) + 1, T0 + Sec(3600)}

\* Python values: a float timestamp, an int, a bool, a plain text, and a
\* text in the format "%Y-%m-%dT%H:%M:%S.%f%z" naming instant k.
PyNum(k) == [t |-> "num", v |-> k]
PyInt(k) == [t |-> "int", v |-> k]
PyBool(b) == [t |-> "bool", v |-> b]
PyStr(x) == [t |-> "str", text |-> x]
IsoUs(k) == [t |-> "str", iso |-> k]

\* bool(v) of Python for the values above.
truthy(v) ==
    /\ v # PyNone
    /\ v # PyStr("")
    /\ v # PyDict(EmptyDict)
    /\ v # PyBool(FALSE)
\* dict.get(key, default) on a dict whose id is its key -> value function.
dict_get(d, key, default) ==
    IF key \in DOMAIN d.id THEN d.id[key] ELSE default
\* `if isinstance(credentials, str): credentials = json.loads(credentials)`:
\* json.loads raises on a text that is not JSON.
loads_raises(credentials) ==
    credentials.t = "str" /\ "json" \notin DOMAIN credentials
loaded(credentials) ==
    IF credentials.t = "str" THEN json_loads(credentials) ELSE credentials
\* datetime.strptime(s, "%Y-%m-%dT%H:%M:%S.%f%z") raises on None and on any
\* text that is not in that format.
strptime_raises(s) == s.t # "str" \/ "iso" \notin DOMAIN s
\* int(x) for x = ticks / TicksPerSecond: truncation toward zero.
int_seconds(ticks) ==
    IF ticks >= 0 THEN ticks \div TicksPerSecond
    ELSE -((-ticks) \div TicksPerSecond)
max(a, b) == IF a >= b THEN a ELSE b

\* Mutant: only absent credentials count as expired.
expired_absent_only(p, credentials, now) == ~truthy(credentials)

\* Mutant: a marker that does not parse counts as not expired.
expired_fail_open(p, credentials, now) ==
    IF ~truthy(credentials) THEN TRUE
    ELSE IF loads_raises(credentials) THEN FALSE
    ELSE IF p = "threads"
    THEN LET expiration == dict_get(loaded(credentials), "expiration", PyNone)
         IN  IF strptime_raises(expiration) THEN FALSE
             ELSE expiration.iso < now
    ELSE LET expires_at == dict_get(loaded(credentials), "expires_at", PyNum(0))
         IN  IF expires_at.t # "num" THEN FALSE
             ELSE expires_at.v < now

\* The body of check_credentials_expiration after the credentials are read.
expired(p, credentials, now) ==
    IF ~truthy(credentials) THEN TRUE
    ELSE IF loads_raises(credentials) THEN TRUE
    ELSE IF p = "threads"
    THEN LET expiration == dict_get(loaded(credentials), "expiration", PyNone)
         IN  IF strptime_raises(expiration) THEN TRUE
             ELSE expiration.iso < now
    ELSE LET expires_at == dict_get(loaded(credentials), "expires_at", PyNum(0))
         IN  IF expires_at.t # "num" THEN TRUE
             ELSE expires_at.v < now

\* Mutant: the result is not clamped at 0.
calculate_expiration_time_unclamped(p, credentials, now) ==
    IF ~truthy(credentials) \/ loads_raises(credentials) THEN 0
    ELSE IF p = "threads"
    THEN LET expiration_str == dict_get(loaded(credentials), "expiration", PyNone)
         IN  IF ~truthy(expiration_str) \/ strptime_raises(expiration_str) THEN 0
             ELSE int_seconds(expiration_str.iso - now)
    ELSE LET expires_at == dict_get(loaded(credentials), "expires_at", PyNum(0))
         IN  IF expires_at.t # "num" THEN 0
             ELSE int_seconds(expires_at.v - now)

calculate_expiration_time(p, credentials, now) ==
    IF ~truthy(credentials) THEN 0
    ELSE IF loads_raises(credentials) THEN 0
    ELSE IF p = "threads"
    THEN LET expiration_str == dict_get(loaded(credentials), "expiration", PyNone)
         IN  IF ~truthy(expiration_str) THEN 0
             ELSE IF strptime_raises(expiration_str) THEN 0
             ELSE max(0, int_seconds(expiration_str.iso - now))
    ELSE LET expires_at == dict_get(loaded(credentials), "expires_at", PyNum(0))
         IN  IF expires_at.t # "num" THEN 0
             ELSE max(0, int_seconds(expires_at.v - now))

\* Mutant: a Twitter token is refreshable only once it has expired.
can_refresh_token_once_expired(p, credentials, now) ==
    IF ~truthy(credentials) THEN FALSE
    ELSE IF loads_raises(credentials) THEN FALSE
    ELSE IF p = "threads"
    THEN dict_get(loaded(credentials), "short_lived", PyBool(FALSE)) = PyBool(FALSE)
    ELSE /\ truthy(dict_get(loaded(credentials), "refresh_token", PyNone))
         /\ calculate_expiration_time(p, credentials, now) = 0

can_refresh_token(p, credentials, now) ==
    IF ~truthy(credentials) THEN FALSE
    ELSE IF loads_raises(credentials) THEN FALSE
    ELSE IF p = "threads"
    THEN dict_get(loaded(credentials), "short_lived", PyBool(FALSE)) = PyBool(FALSE)
    ELSE /\ truthy(dict_get(loaded(credentials), "refresh_token", PyNone))
         /\ calculate_expiration_time(p, credentials, now) > -86400

\* A key a dict does not hold.
Missing == [t |-> "missing"]
Present(g) == [k \in {x \in DOMAIN g : g[x] # Missing} |-> g[k]]

\* The token dict pytwitter returns: expires_at is an epoch timestamp.
TwitterFields(expires_at, refresh_token, n) ==
    Present([expires_at |-> expires_at, refresh_token |-> refresh_token,
             access_token |-> PyStr(n)])
\* The fields of a pythreads Credentials object: expiration is ISO text.
ThreadsFields(expiration, short_lived, n) ==
    Present([expiration |-> expiration, short_lived |-> short_lived,
             access_token |-> PyStr(n)])

\* Payloads a row may hold when the clock is first read.
TwitterPayloads ==
    {PyDict(TwitterFields(e, r, "tokA")) :
        e \in {PyNum(k) : k \in Instants} \cup {Missing, PyStr("soon")},
        r \in {Missing, PyStr("r1")}}
ThreadsPayloads ==
    {PyCredentials(ThreadsFields(x, PyBool(FALSE), "tokA")) :
        x \in {IsoUs(k) : k \in Instants}
              \cup {Missing, PyStr("2025-04-09T09:06:20+00:00")}}
\* What Api.refresh_oauth2_token returns when the exchange succeeds.
NewCredentials ==
    {PyDict(TwitterFields(PyNum(T0 + Sec(7200)), PyStr("r2"), "tokB"))}

\* Values the credentials parameter of the pure methods is called with: what
\* get returns for a stored payload, None, an empty dict, a text that is not
\* JSON, and a short-lived Threads token.
CredentialsArgs(p) ==
    IF p = "threads"
    THEN {to_json(c) : c \in ThreadsPayloads}
         \cup {PyNone, PyDict(EmptyDict), PyStr("garbage"),
               PyDict(ThreadsFields(IsoUs(T0 + Sec(3600)), PyBool(TRUE), "tokA"))}
    ELSE TwitterPayloads \cup {json_dumps(c) : c \in NewCredentials}
         \cup {PyNone, PyDict(EmptyDict), PyStr("garbage")}

\* What the environment did in a call: the fault of the read, the outcome of
\* the provider exchange and the fault of the write ("none": not reached).
Env(read, exchange, write) ==
    [read |-> read, exchange |-> exchange, write |-> write]
NoEnv == Env("none", "none", "none")

TokenCall(op, p, user_id, arg, now, env, outcome, result, stored) ==
    [op |-> op, provider |-> p, user |-> user_id, arg |-> arg, now |-> now,
     env |-> env, outcome |-> outcome, result |-> result, stored |-> stored]

\* The table after the connection made before the clock is first read: user
\* u1 is connected to at most one provider, u2 to none.
InitToken ==
    /\ states = [p \in Providers |-> EmptyDict]
    /\ \E th \in ThreadsPayloads \cup {PyNone}, tw \in TwitterPayloads \cup {PyNone} :
         /\ th = PyNone \/ tw = PyNone
         /\ LET a == IF th = PyNone THEN EmptyDict
                     ELSE db_store_user_credentials(EmptyDict, "idle", "u1", th,
                                                    "threads", "ok").users
            IN  users = IF tw = PyNone THEN a
                        ELSE db_store_user_credentials(a, "idle", "u1", tw,
                                                       "twitter", "ok").users
    /\ conn = "idle"
    /\ nextState = 1
    /\ used = {}
    /\ stale = {}
    /\ last = NoCall

\* {Threads,Twitter}AuthHandler.check_credentials_expiration(user_id): the
\* read is outside the try, so a failed read leaves as HTTPException(500).
CheckCredentialsExpiration(p, user_id, now) ==
    \E fault \in Faults :
      LET r == get_user_credentials(p, user_id, fault)
      IN  /\ conn' = r.conn
          /\ last' = TokenCall("check_credentials_expiration", p, user_id,
                               r.value, now, Env(fault, "none", "none"),
                               IF r.raised THEN "http500" ELSE "ok",
                               IF r.raised THEN PyNone
                               ELSE PyBool(expired(p, r.value, now)), PyNone)
          /\ UNCHANGED <<users, states, nextState, used, stale>>

\* {Threads,Twitter}AuthHandler.calculate_expiration_time(credentials)
CalculateExpirationTime(p, credentials, now) ==
    /\ last' = TokenCall("calculate_expiration_time", p, NoneId, credentials,
                         now, NoEnv, "ok",
                         PyInt(calculate_expiration_time(p, credentials, now)),
                         PyNone)
    /\ UNCHANGED <<users, conn, states, nextState, used, stale>>

\* {Threads,Twitter}AuthHandler.can_refresh_token(credentials)
CanRefreshToken(p, credentials, now) ==
    /\ last' = TokenCall("can_refresh_token", p, NoneId, credentials, now,
                         NoEnv, "ok", PyBool(can_refresh_token(p, credentials, now)), PyNone)
    /\ UNCHANGED <<users, conn, states, nextState, used, stale>>

\* The outcome of Api.refresh_oauth2_token: it raises, or returns a token.
Exchanges == {PyNone} \cup NewCredentials

\* TwitterAuthHandler.refresh_token(user_id). The read is outside the try;
\* everything after it is inside.
RefreshToken(user_id, now) ==
    \E fault \in Faults :
      LET r == get_user_credentials("twitter", user_id, fault)
          Returns(b) ==
              /\ users' = users
              /\ conn' = r.conn
              /\ last' = TokenCall("refresh_token", "twitter", user_id, r.value,
                                   now, Env(fault, "none", "none"), "ok",
                                   PyBool(b), PyNone)
      IN  /\ UNCHANGED <<states, nextState, used, stale>>
          /\ IF r.raised
             THEN /\ users' = users
                  /\ conn' = r.conn
                  /\ last' = TokenCall("refresh_token", "twitter", user_id,
                                       r.value, now, Env(fault, "none", "none"),
                                       "http500", PyNone, PyNone)
             ELSE IF ~truthy(r.value) THEN Returns(FALSE)
             ELSE IF loads_raises(r.value) THEN Returns(FALSE)
             ELSE IF ~can_refresh_token("twitter", loaded(r.value), now)
             THEN Returns(FALSE)
             ELSE IF ~truthy(dict_get(loaded(r.value), "refresh_token", PyNone))
             THEN Returns(FALSE)
             ELSE \E new_credentials \in Exchanges :
                    IF new_credentials = PyNone
                    THEN /\ users' = users
                         /\ conn' = r.conn
                         /\ last' = TokenCall(
                               "refresh_token", "twitter", user_id, r.value,
                               now, Env(fault, "raised", "none"), "ok",
                               PyBool(FALSE), PyNone)
                    ELSE \E wfault \in Faults :
                           LET s == db_store_user_credentials(
                                        users, r.conn, user_id, new_credentials,
                                        "twitter", wfault)
                           IN  /\ users' = s.users
                               /\ conn' = s.conn
                               /\ last' = TokenCall(
                                     "refresh_token", "twitter", user_id,
                                     r.value, now, Env(fault, "ok", wfault),
                                     "ok", PyBool(~s.raised),
                                     IF s.raised THEN PyNone
                                     ELSE new_credentials)

NextToken ==
    \/ \E p \in Providers, u \in Users, now \in Clock :
         CheckCredentialsExpiration(p, u, now)
    \/ \E p \in Providers, now \in Clock :
         \E credentials \in CredentialsArgs(p) :
            CalculateExpirationTime(p, credentials, now)
    \/ \E p \in Providers, now \in Clock :
         \E credentials \in CredentialsArgs(p) :
            CanRefreshToken(p, credentials, now)
    \/ \E u \in Users, now \in Clock : RefreshToken(u, now)

SpecToken == InitToken /\ [][NextToken]_vars

\* ====================================================== Social Controllers
\* An exception object: its class, the status_code of an HTTPException and
\* the provider error code it carries (PyNone when it carries none).
Exc(type, status_code, code) ==
    [type |-> type, status_code |-> status_code, code |-> code]
\* AuthHandlerBase / SocialController wrap every Database error.
StorageError == Exc("HTTPException", PyInt(500), PyNone)

\* What a handler hands to the HTTP layer: a Response, or an exception that
\* escaped it.
Response(status_code, body) ==
    [kind |-> "response", status_code |-> status_code, body |-> body]
Escaped(type) ==
    [kind |-> "exception", status_code |-> PyNone,
     body |-> [status |-> "none", code |-> PyNone, message |-> type,
               platform |-> "none"]]

\* SocialController.create_success_response
create_success_response(provider_id, message) ==
    Response(PyInt(200), [status |-> "success", code |-> PyInt(200),
                          message |-> message, platform |-> provider_id])

\* SocialController.create_error_response. Response(status_code=None) is
\* outside what starlette defines: the constructor either raises TypeError
\* (comparing None with an int) or builds a response without a status.
create_error_response(provider_id, status_code, message) ==
    LET r == Response(status_code,
                      [status |-> "error", code |-> status_code,
                       message |-> message, platform |-> provider_id])
    IN  IF status_code = PyNone THEN {r, Escaped("TypeError")} ELSE {r}

\* SocialController.handle_exception
handle_exception(provider_id, e, operation) ==
    IF e.type = "HTTPException"
    THEN create_error_response(provider_id, e.status_code, "http_exception")
    ELSE create_error_response(provider_id, PyInt(500), operation)

\* The error_responses table of handle_twitter_error: code -> status.
error_responses ==
    [c \in {32, 34, 63, 64, 88, 89, 130, 131, 215, 326} |->
        CASE c = 32  -> "unauthorized"
          [] c = 34  -> "not_found"
          [] c = 63  -> "suspended"
          [] c = 64  -> "account_suspended"
          [] c = 88  -> "rate_limit"
          [] c = 89  -> "invalid_token"
          [] c = 130 -> "over_capacity"
          [] c = 131 -> "internal_error"
          [] c = 215 -> "bad_authentication"
          [] c = 326 -> "account_locked"]

\* handle_twitter_error(e): the TwitterErrorResponse dict.
handle_twitter_error(e) ==
    LET error_code == IF e.type = "HTTPException" THEN PyNone ELSE e.code
    IN  IF error_code # PyNone /\ error_code.v \in DOMAIN error_responses
        THEN [status |-> error_responses[error_code.v], code |-> error_code]
        ELSE IF e.type = "HTTPException" /\ e.status_code = PyInt(429)
        THEN [status |-> error_responses[88], code |-> PyInt(88)]
        ELSE [status |-> "error", code |-> error_code]

\* The except clause of TwitterController.get_user_account (inner), post and
\* delete_post: status_code=error_info.get("code", 500); the key is always
\* there, so the default is never taken.
twitter_error_response(e) ==
    create_error_response("twitter", handle_twitter_error(e).code,
                          handle_twitter_error(e).status)

\* Errors the Twitter client raises: rate limit, suspended account, bad
\* authentication, an HTTP status the table does not hold, no code at all.
TwitterApiErrors ==
    {Exc("PyTwitterError", PyNone, PyInt(88)),
     Exc("PyTwitterError", PyNone, PyInt(63)),
     Exc("PyTwitterError", PyNone, PyInt(215)),
     Exc("PyTwitterError", PyNone, PyInt(403)),
     Exc("Exception", PyNone, PyNone)}

\* One way a handler call can end: its answer, the table and connection it
\* leaves, the provider calls it made, what became of a token refresh
\* ("none": not tried) and whether it deleted the user's credentials.
Out(resp, tbl, c, calls, refresh, deleted) ==
    [resp |-> resp, users |-> tbl, conn |-> c, calls |-> calls,
     refresh |-> refresh, deleted |-> deleted]
Outs(resps, tbl, c, calls, refresh, deleted) ==
    {Out(r, tbl, c, calls, refresh, deleted) : r \in resps}
\* The credential checks passed: the handler goes on with credentials.
Pass(credentials, tbl, c, refresh) ==
    [credentials |-> credentials, users |-> tbl, conn |-> c,
     refresh |-> refresh]
\* The two kinds gathered: ended calls and calls that go on.
Checked(ended, passed) == [ended |-> ended, passed |-> passed]
Join(S) ==
    Checked(UNION {x.ended : x \in S}, UNION {x.passed : x \in S})

\* `await self.auth_handler.delete_user_credentials(user_id)` followed by
\* the 401 answer; caught is what the except clause around the call answers.
delete_then_401(p, tbl, c, user_id, refresh, message, caught) ==
    UNION {LET d == db_delete_user_credentials(tbl, c, user_id, p, fault)
           IN  IF d.raised
               THEN Outs(caught, d.users, d.conn, <<>>, refresh,
                         FALSE)
               ELSE Outs(create_error_response(p, PyInt(401), message),
                         d.users, d.conn, <<>>, refresh, TRUE)
           : fault \in Faults \ {"crypto"}}

\* Mutant: the stored credentials are used without the expiration check.
checked_present_only(p, tbl, c, user_id, now, caught) ==
    IF not_user_id(user_id)
    THEN Checked(Outs(create_error_response(p, PyInt(400), "user_id_required"),
                      tbl, c, <<>>, "none", FALSE), {})
    ELSE Join({
      LET g == db_get_user_credentials(tbl, c, user_id, p, f1)
      IN  IF g.raised
          THEN Checked(Outs(caught, tbl, g.conn, <<>>, "none", FALSE), {})
          ELSE IF ~truthy(g.value)
          THEN Checked(Outs(create_error_response(p, PyInt(404), "not_connected"),
                            tbl, g.conn, <<>>, "none", FALSE), {})
          ELSE Checked({}, {Pass(g.value, tbl, g.conn, "none")})
      : f1 \in Faults})

\* The checks that open get_user_account (both providers) and the Threads
\* post: user_id, stored credentials, expiration; expired credentials are
\* deleted and answered with 401.
checked_or_deleted(p, tbl, c, user_id, now, caught) ==
    IF not_user_id(user_id)
    THEN Checked(Outs(create_error_response(p, PyInt(400), "user_id_required"),
                      tbl, c, <<>>, "none", FALSE), {})
    ELSE Join({
      LET g == db_get_user_credentials(tbl, c, user_id, p, f1)
      IN  IF g.raised
          THEN Checked(Outs(caught, tbl, g.conn, <<>>, "none",
                            FALSE), {})
          ELSE IF ~truthy(g.value)
          THEN Checked(Outs(create_error_response(p, PyInt(404), "not_connected"),
                            tbl, g.conn, <<>>, "none", FALSE), {})
          ELSE Join({
            LET k == db_get_user_credentials(tbl, g.conn, user_id, p, f2)
            IN  IF k.raised
                THEN Checked(Outs(caught, tbl, k.conn, <<>>,
                                  "none", FALSE), {})
                ELSE IF expired(p, k.value, now)
                THEN Checked(delete_then_401(p, tbl, k.conn, user_id, "none",
                                             "expired", caught), {})
                ELSE Checked({}, {Pass(g.value, tbl, k.conn, "none")})
            : f2 \in Faults})
      : f1 \in Faults})

\* TwitterAuthHandler.refresh_token(user_id) as the controllers call it:
\* every way it can end, as [raised, value, users, conn].
refresh_token(tbl, c, user_id, now) ==
    UNION {
      LET r == db_get_user_credentials(tbl, c, user_id, "twitter", fault)
          Returns(b) == {[raised |-> FALSE, value |-> b, users |-> tbl,
                          conn |-> r.conn]}
      IN  IF r.raised
          THEN {[raised |-> TRUE, value |-> FALSE, users |-> tbl,
                 conn |-> r.conn]}
          ELSE IF ~truthy(r.value) THEN Returns(FALSE)
          ELSE IF loads_raises(r.value) THEN Returns(FALSE)
          ELSE IF ~can_refresh_token("twitter", loaded(r.value), now)
          THEN Returns(FALSE)
          ELSE IF ~truthy(dict_get(loaded(r.value), "refresh_token", PyNone))
          THEN Returns(FALSE)
          ELSE UNION {
                 IF new_credentials = PyNone THEN Returns(FALSE)
                 ELSE {LET s == db_store_user_credentials(
                                    tbl, r.conn, user_id, new_credentials,
                                    "twitter", wfault)
                       IN  [raised |-> FALSE, value |-> ~s.raised,
                            users |-> s.users, conn |-> s.conn]
                       : wfault \in Faults}
                 : new_credentials \in Exchanges}
      : fault \in Faults}

\* The checks that open the Twitter post and delete_post: expired
\* credentials are refreshed, and deleted with a 401 only when the refresh
\* returned False.
checked_or_refreshed(tbl, c, user_id, id, now, caught) ==
    IF not_user_id(user_id) \/ not_user_id(id)
    THEN Checked(Outs(create_error_response("twitter", PyInt(400), "id_required"),
                      tbl, c, <<>>, "none", FALSE), {})
    ELSE Join({
      LET g == db_get_user_credentials(tbl, c, user_id, "twitter", f1)
      IN  IF g.raised
          THEN Checked(Outs(caught, tbl, g.conn, <<>>, "none",
                            FALSE), {})
          ELSE IF ~truthy(g.value)
          THEN Checked(Outs(create_error_response("twitter", PyInt(404),
                                                  "not_connected"),
                            tbl, g.conn, <<>>, "none", FALSE), {})
          ELSE Join({
            LET k == db_get_user_credentials(tbl, g.conn, user_id, "twitter", f2)
            IN  IF k.raised
                THEN Checked(Outs(caught, tbl, k.conn, <<>>,
                                  "none", FALSE), {})
                ELSE IF ~expired("twitter", k.value, now)
                THEN Checked({}, {Pass(g.value, tbl, k.conn, "none")})
                ELSE Join({
                  IF r.raised
                  THEN Checked(Outs(caught, r.users, r.conn, <<>>,
                                    "raised", FALSE), {})
                  ELSE IF ~r.value
                  THEN Checked(delete_then_401("twitter", r.users, r.conn,
                                               user_id, "failed",
                                               "expired_not_refreshed", caught),
                               {})
                  ELSE Join({
                    LET n == db_get_user_credentials(r.users, r.conn, user_id,
                                                     "twitter", f3)
                    IN  IF n.raised
                        THEN Checked(Outs(caught, r.users, n.conn,
                                          <<>>, "ok", FALSE), {})
                        ELSE Checked({}, {Pass(n.value, r.users, n.conn, "ok")})
                    : f3 \in Faults})
                  : r \in refresh_token(tbl, k.conn, user_id, now)})
            : f2 \in Faults})
      : f1 \in Faults})

\* A provider call and what the handler saw of it.
Saw(call, result) == [call |-> call, result |-> result]
\* An exception of the provider SDK or of the HTTP client.
SdkError == Exc("Exception", PyNone, PyNone)

\* ThreadsController.get_user_account / TwitterController.get_user_account
get_user_account(p, tbl, c, user_id, now) ==
    LET OnExc(e) == handle_exception(p, e, "retrieving user account")
        chk == checked_or_deleted(p, tbl, c, user_id, now,
                                  OnExc(StorageError))
        Api(x) ==
            IF p = "threads"
            THEN Outs({create_success_response(p, "account")}, x.users, x.conn,
                      <<Saw("account", "ok"), Saw("user_insights", "ok")>>,
                      x.refresh, FALSE)
                 \cup Outs(create_error_response(p, PyInt(500), "api_error"),
                           x.users, x.conn, <<Saw("account", "raised")>>,
                           x.refresh, FALSE)
            ELSE Outs({create_success_response(p, "account")}, x.users, x.conn,
                      <<Saw("get_me", "ok")>>, x.refresh, FALSE)
                 \cup UNION {Outs(twitter_error_response(e), x.users, x.conn,
                                  <<Saw("get_me", "raised")>>, x.refresh, FALSE)
                             : e \in TwitterApiErrors}
    IN  chk.ended \cup UNION {Api(x) : x \in chk.passed}

\* What api.container_status reports.
ContainerStatus == {"IN_PROGRESS", "FINISHED", "PUBLISHED", "ERROR"}

\* ThreadsController.post from `async with API(...)` on: create_container,
\* container_status, publish_container, container_status, thread.
publish(x, caught) ==
    LET Ends(resps, calls) ==
            Outs(resps, x.users, x.conn, calls, x.refresh, FALSE)
        Err(message) == create_error_response("threads", PyInt(500), message)
        created == <<Saw("create_container", "id")>>
        Fetched(calls) ==
            Ends(caught, Append(calls, Saw("thread", "raised")))
            \cup Ends({create_success_response("threads", "posted")},
                      Append(calls, Saw("thread", "ok")))
        Published(calls) ==
            Ends(caught, Append(calls, Saw("container_status", "raised")))
            \cup UNION {
                   LET seen == Append(calls, Saw("container_status", s))
                   IN  IF s = "PUBLISHED" THEN Fetched(seen)
                       ELSE Ends(Err("publish_failed"), seen)
                   : s \in ContainerStatus}
        Ready(calls) ==
            Ends(caught, Append(calls, Saw("publish_container", "raised")))
            \cup Published(Append(calls, Saw("publish_container", "id")))
    IN  Ends(caught, <<Saw("create_container", "raised")>>)
        \cup Ends(Err("container_failed"), <<Saw("create_container", "none")>>)
        \cup Ends(caught,
                  Append(created, Saw("container_status", "raised")))
        \cup UNION {
               LET seen == Append(created, Saw("container_status", s))
               IN  IF s = "FINISHED" THEN Ready(seen)
                   ELSE Ends(Err("container_not_ready"), seen)
               : s \in ContainerStatus}

\* ThreadsController.post
threads_post(tbl, c, user_id, now) ==
    LET OnExc(e) == handle_exception("threads", e, "posting thread")
        chk == checked_or_deleted("threads", tbl, c, user_id, now,
                                  OnExc(StorageError))
    IN  chk.ended \cup UNION {publish(x, OnExc(SdkError)) : x \in chk.passed}

\* TwitterController.post (call = "create_tweet") and delete_post (call =
\* "delete_tweet"): the same checks, one client call, one except clause.
twitter_write(call, tbl, c, user_id, id, image_url, now) ==
    LET OnExc(e) == twitter_error_response(e)
        chk == checked_or_refreshed(tbl, c, user_id, id, now,
                                    OnExc(StorageError))
        Ends(x, resps, calls) ==
            Outs(resps, x.users, x.conn, calls, x.refresh, FALSE)
        Api(x) ==
            IF image_url
            THEN Ends(x, create_error_response("twitter", PyInt(501),
                                               "media_not_implemented"), <<>>)
            ELSE Ends(x, {create_success_response("twitter", call)},
                      <<Saw(call, "ok")>>)
                 \cup Ends(x, create_error_response("twitter", PyInt(500),
                                                    "no_response"),
                           <<Saw(call, "none")>>)
                 \cup UNION {Ends(x, OnExc(e), <<Saw(call, "raised")>>)
                             : e \in TwitterApiErrors}
    IN  chk.ended \cup UNION {Api(x) : x \in chk.passed}

\* ThreadsController.delete_post. Its except clause calls
\* handle_threads_error, a name the module never defines or imports, so
\* whatever reaches the clause leaves as NameError; and the handler has no
\* refresh_token method, so expired credentials reach it (AttributeError).
threads_delete_post(tbl, c, user_id, id, now) ==
    LET Except == {Escaped("NameError")}
        Err(code, message) == create_error_response("threads", PyInt(code), message)
    IN  IF not_user_id(user_id) \/ not_user_id(id)
        THEN Outs(Err(400, "id_required"), tbl, c, <<>>, "none", FALSE)
        ELSE UNION {
          LET g == db_get_user_credentials(tbl, c, user_id, "threads", f1)
          IN  IF g.raised
              THEN Outs(Except, tbl, g.conn, <<>>, "none", FALSE)
              ELSE IF ~truthy(g.value)
              THEN Outs(Err(404, "not_connected"), tbl, g.conn, <<>>, "none",
                        FALSE)
              ELSE UNION {
                LET k == db_get_user_credentials(tbl, g.conn, user_id,
                                                 "threads", f2)
                IN  IF k.raised
                    THEN Outs(Except, tbl, k.conn, <<>>, "none", FALSE)
                    ELSE IF expired("threads", k.value, now)
                    THEN Outs(Except, tbl, k.conn, <<>>, "raised", FALSE)
                    ELSE Outs({create_success_response("threads", "deleted")},
                              tbl, k.conn, <<Saw("http_delete", "200")>>,
                              "none", FALSE)
                         \cup Outs(Err(500, "delete_failed"), tbl, k.conn,
                                   <<Saw("http_delete", "other")>>, "none",
                                   FALSE)
                         \cup Outs(Except, tbl, k.conn,
                                   <<Saw("http_delete", "raised")>>, "none",
                                   FALSE)
                : f2 \in Faults}
          : f1 \in Faults}

\* The dict get_token_validity returns.
Validity(valid, expires_in, refresh_possible, platform) ==
    [valid |-> valid, expires_in |-> expires_in,
     refresh_possible |-> refresh_possible, platform |-> platform]
Returned(value, c) == [raised |-> FALSE, value |-> value, conn |-> c]
Raised500(c) == [raised |-> TRUE, value |-> PyNone, conn |-> c]

\* Mutant: expired credentials are reported as not refreshable.
get_token_validity_no_refresh(p, tbl, c, user_id, now, later) ==
    UNION {
      LET g == db_get_user_credentials(tbl, c, user_id, p, f1)
      IN  IF g.raised THEN {Raised500(g.conn)}
          ELSE IF ~truthy(g.value)
          THEN {Returned(Validity(FALSE, 0, FALSE, p), g.conn)}
          ELSE {LET k == db_get_user_credentials(tbl, g.conn, user_id, p, f2)
                IN  IF k.raised THEN Raised500(k.conn)
                    ELSE IF expired(p, k.value, now)
                    THEN Returned(Validity(FALSE, 0, FALSE, p), k.conn)
                    ELSE Returned(
                           Validity(TRUE,
                                    calculate_expiration_time(p, g.value, later),
                                    can_refresh_token(p, g.value, later), p),
                           k.conn)
                : f2 \in Faults}
      : f1 \in Faults}

\* AuthHandlerBase.get_token_validity(user_id): the clock is read at `now`
\* by check_credentials_expiration and at `later` by the two other
\* primitives; every exception leaves as HTTPException(500).
get_token_validity(p, tbl, c, user_id, now, later) ==
    UNION {
      LET g == db_get_user_credentials(tbl, c, user_id, p, f1)
      IN  IF g.raised THEN {Raised500(g.conn)}
          ELSE IF ~truthy(g.value)
          THEN {Returned(Validity(FALSE, 0, FALSE, p), g.conn)}
          ELSE {LET k == db_get_user_credentials(tbl, g.conn, user_id, p, f2)
                IN  IF k.raised THEN Raised500(k.conn)
                    ELSE IF expired(p, k.value, now)
                    THEN Returned(
                           Validity(FALSE, 0,
                                    can_refresh_token(p, g.value, later), p),
                           k.conn)
                    ELSE Returned(
                           Validity(TRUE,
                                    calculate_expiration_time(p, g.value, later),
                                    can_refresh_token(p, g.value, later), p),
                           k.conn)
                : f2 \in Faults}
      : f1 \in Faults}

\* ThreadsController.token_validity / TwitterController.token_validity
token_validity(p, tbl, c, user_id, now, later) ==
    IF not_user_id(user_id)
    THEN Outs(create_error_response(p, PyInt(400), "user_id_required"),
              tbl, c, <<>>, "none", FALSE)
    ELSE UNION {
           IF v.raised
           THEN Outs(handle_exception(p, StorageError, "checking token validity"),
                     tbl, v.conn, <<>>, "none", FALSE)
           ELSE Outs({create_success_response(p, "validity")}, tbl, v.conn,
                     <<>>, "none", FALSE)
           : v \in get_token_validity(p, tbl, c, user_id, now, later)}

\* Mutant: expired credentials are reported and left in the row.
is_connected_keeps(p, tbl, c, user_id, now) ==
    UNION {
      LET g == db_get_user_credentials(tbl, c, user_id, p, f1)
      IN  IF g.raised
          THEN {[raised |-> TRUE, value |-> FALSE, users |-> tbl, conn |-> g.conn]}
          ELSE {[raised |-> FALSE,
                 value  |-> g.value # PyNone /\ ~expired(p, g.value, now),
                 users  |-> tbl, conn |-> g.conn]}
      : f1 \in Faults}

\* AuthHandlerBase.is_connected(user_id): [raised, value, users, conn].
is_connected(p, tbl, c, user_id, now) ==
    LET Ends(raised, value, t2, c2) ==
            [raised |-> raised, value |-> value, users |-> t2, conn |-> c2]
    IN  UNION {
          LET g == db_get_user_credentials(tbl, c, user_id, p, f1)
          IN  IF g.raised THEN {Ends(TRUE, FALSE, tbl, g.conn)}
              ELSE IF g.value = PyNone THEN {Ends(FALSE, FALSE, tbl, g.conn)}
              ELSE UNION {
                LET k == db_get_user_credentials(tbl, g.conn, user_id, p, f2)
                IN  IF k.raised THEN {Ends(TRUE, FALSE, tbl, k.conn)}
                    ELSE IF ~expired(p, k.value, now)
                    THEN {Ends(FALSE, TRUE, tbl, k.conn)}
                    ELSE {LET d == db_delete_user_credentials(
                                       tbl, k.conn, user_id, p, f3)
                          IN  Ends(d.raised, FALSE, d.users, d.conn)
                          : f3 \in Faults \ {"crypto"}}
                : f2 \in Faults}
          : f1 \in Faults}

\* TwitterAuthHandler.verify_credentials(user_id): the read is outside the
\* try; an expired token is deleted; get_me decides the rest.
verify_credentials(tbl, c, user_id, now) ==
    LET Ends(raised, value, t2, c2, calls) ==
            [raised |-> raised, value |-> value, users |-> t2, conn |-> c2,
             calls |-> calls]
    IN  UNION {
          LET g == db_get_user_credentials(tbl, c, user_id, "twitter", f1)
              expires_at == dict_get(loaded(g.value), "expires_at", PyNum(0))
          IN  IF g.raised THEN {Ends(TRUE, FALSE, tbl, g.conn, <<>>)}
              ELSE IF ~truthy(g.value) THEN {Ends(FALSE, FALSE, tbl, g.conn, <<>>)}
              ELSE IF loads_raises(g.value) \/ expires_at.t # "num"
              THEN {Ends(FALSE, FALSE, tbl, g.conn, <<>>)}
              ELSE IF expires_at.v < now
              THEN {LET d == db_delete_user_credentials(
                                 tbl, g.conn, user_id, "twitter", f3)
                    IN  Ends(FALSE, FALSE, d.users, d.conn, <<>>)
                    : f3 \in Faults \ {"crypto"}}
              ELSE {Ends(FALSE, TRUE, tbl, g.conn, <<Saw("get_me", "ok")>>),
                    Ends(FALSE, FALSE, tbl, g.conn, <<Saw("get_me", "raised")>>)}
          : f1 \in Faults}

\* ------------------------------------------------------------ API-key gate
\* PUBLIC_PATHS of api/utils/auth.py.
PUBLIC_PATHS ==
    {"/auth/threads/callback", "/auth/twitter/callback", "/health", "/docs",
     "/redoc", "/openapi.json"}
\* Paths a request may name: the public ones, routes of the four routers,
\* the root, and paths that only look like public ones.
Paths ==
    PUBLIC_PATHS \cup
    {"/", "/auth/threads/connect", "/auth/twitter/connect",
     "/auth/threads/disconnect", "/auth/twitter/refresh_token",
     "/threads/user_account", "/threads/post", "/twitter/post",
     "/twitter/delete_post", "/twitter/token_validity", "/health/",
     "/docs/oauth2-redirect", "/auth/threads/callback/"}
\* settings.API_KEY
API_KEY == "secret"
\* Values of the API-key header: absent (None), empty, right, wrong.
ApiKeys == {NoneId, EmptyId, API_KEY, "wrong", "Secret"}

\* Mutant: the public paths need the key as well.
verify_api_key_no_allow_list(path, api_key) ==
    IF api_key \in {NoneId, EmptyId} THEN "http401"
    ELSE IF api_key # API_KEY THEN "http403"
    ELSE "pass"

\* verify_api_key(request, api_key)
verify_api_key(path, api_key) ==
    IF path \in PUBLIC_PATHS THEN "pass"
    ELSE IF api_key \in {NoneId, EmptyId} THEN "http401"
    ELSE IF api_key # API_KEY THEN "http403"
    ELSE "pass"

GateCall(path, api_key, outcome) ==
    [op |-> "verify_api_key", provider |-> "none", user |-> NoneId,
     path |-> path, api_key |-> api_key, outcome |-> outcome]

\* The dependency FastAPI runs before every endpoint.
VerifyApiKey(path, api_key) ==
    /\ last' = GateCall(path, api_key, verify_api_key(path, api_key))
    /\ UNCHANGED <<states, users, conn, nextState, used, stale>>

\* ------------------------------------------------------ controller requests
CtlCall(op, p, user_id, now, o, result) ==
    [op |-> op, provider |-> p, user |-> user_id, now |-> now,
     resp |-> o.resp, calls |-> o.calls, refresh |-> o.refresh,
     deleted |-> o.deleted, result |-> result]

\* A request answered with one of the outcomes in S.
Answers(op, p, user_id, now, S) ==
    \E o \in S :
       /\ users' = o.users
       /\ conn' = o.conn
       /\ last' = CtlCall(op, p, user_id, now, o, PyNone)
       /\ UNCHANGED <<states, nextState, used, stale>>

\* GET /threads/user_account, GET /twitter/user_account
GetUserAccount(p, user_id, now) ==
    Answers("get_user_account", p, user_id, now,
            get_user_account(p, users, conn, user_id, now))

\* POST /threads/post
ThreadsPost(user_id, now) ==
    Answers("post", "threads", user_id, now,
            threads_post(users, conn, user_id, now))

\* POST /twitter/post
TwitterPost(user_id, image_url, now) ==
    Answers("post", "twitter", user_id, now,
            twitter_write("create_tweet", users, conn, user_id, "message",
                          image_url, now))

\* POST /threads/delete_post, POST /twitter/delete_post
DeletePost(p, user_id, id, now) ==
    Answers("delete_post", p, user_id, now,
            IF p = "threads"
            THEN threads_delete_post(users, conn, user_id, id, now)
            ELSE twitter_write("delete_tweet", users, conn, user_id, id, FALSE,
                               now))

\* GET /threads/token_validity, GET /twitter/token_validity
TokenValidity(p, user_id, now, later) ==
    Answers("token_validity", p, user_id, now,
            token_validity(p, users, conn, user_id, now, later))

\* A method that returns a value instead of a Response.
Value ==
    [kind |-> "value", status_code |-> PyNone,
     body |-> [status |-> "none", code |-> PyNone, message |-> "none",
               platform |-> "none"]]
\* The outcome record of a handler method that returned or raised.
MethodOut(raised, tbl, c, calls, deleted) ==
    Out(IF raised THEN Escaped("HTTPException") ELSE Value, tbl, c, calls,
        "none", deleted)

\* Mutant: the snapshot deletes what it finds expired, as is_connected does.
GetTokenValidityDeleting(p, user_id, now, later) ==
    \E r \in is_connected(p, users, conn, user_id, now) :
       /\ users' = r.users
       /\ conn' = r.conn
       /\ last' = CtlCall("get_token_validity", p, user_id, now,
                          MethodOut(r.raised, r.users, r.conn, <<>>,
                                    r.users # users),
                          [value |-> Validity(r.value, 0, FALSE, p),
                           later |-> later])
       /\ UNCHANGED <<states, nextState, used, stale>>

\* AuthHandlerBase.get_token_validity(user_id)
GetTokenValidity(p, user_id, now, later) ==
    \E v \in get_token_validity(p, users, conn, user_id, now, later) :
       /\ conn' = v.conn
       /\ last' = CtlCall("get_token_validity", p, user_id, now,
                          MethodOut(v.raised, users, v.conn, <<>>, FALSE),
                          [value |-> v.value, later |-> later])
       /\ UNCHANGED <<users, states, nextState, used, stale>>

\* GET /auth/{provider}/is_connected
IsConnected(p, user_id, now) ==
    \E r \in is_connected(p, users, conn, user_id, now) :
       /\ users' = r.users
       /\ conn' = r.conn
       /\ last' = CtlCall("is_connected", p, user_id, now,
                          MethodOut(r.raised, r.users, r.conn, <<>>,
                                    r.users # users),
                          PyBool(r.value))
       /\ UNCHANGED <<states, nextState, used, stale>>

\* TwitterAuthHandler.verify_credentials(user_id)
VerifyCredentials(user_id, now) ==
    \E r \in verify_credentials(users, conn, user_id, now) :
       /\ users' = r.users
       /\ conn' = r.conn
       /\ last' = CtlCall("verify_credentials", "twitter", user_id, now,
                          MethodOut(r.raised, r.users, r.conn, r.calls,
                                    r.users # users),
                          PyBool(r.value))
       /\ UNCHANGED <<states, nextState, used, stale>>

\* Payloads the rows hold when the requests start: a marker one second
\* behind or one hour ahead of T0; a Twitter token with or without a
\* refresh_token.
CtlInstants == {T0 - Sec(1), T0 + Sec(3600)}
CtlPayloads(p) ==
    IF p = "threads"
    THEN {PyCredentials(ThreadsFields(IsoUs(k), PyBool(FALSE), "tokA")) :
             k \in CtlInstants}
    ELSE {PyDict(TwitterFields(PyNum(k), r, "tokA")) :
             k \in CtlInstants, r \in {Missing, PyStr("r1")}}

\* The table with one credential of u1 stored, and u2 connected to Twitter
\* or not at all.
InitCtl ==
    /\ states = [p \in Providers |-> EmptyDict]
    /\ \E p \in Providers, other \in BOOLEAN :
         \E x \in CtlPayloads(p) \cup {PyNone} :
           LET a == IF x = PyNone THEN EmptyDict
                    ELSE db_store_user_credentials(EmptyDict, "idle", "u1", x,
                                                   p, "ok").users
           IN  users = IF other
                       THEN db_store_user_credentials(
                              a, "idle", "u2",
                              PyDict(TwitterFields(PyNum(T0 + Sec(3600)),
                                                   PyStr("r1"), "tokB")),
                              "twitter", "ok").users
                       ELSE a
    /\ conn = "idle"
    /\ nextState = 1
    /\ used = {}
    /\ stale = {}
    /\ last = NoCall

NextCtl ==
    \/ \E p \in Providers, u \in UserIdParams, now \in Clock :
         GetUserAccount(p, u, now)
    \/ \E u \in UserIdParams, now \in Clock : ThreadsPost(u, now)
    \/ \E u \in UserIdParams, image_url \in BOOLEAN, now \in Clock :
         TwitterPost(u, image_url, now)
    \/ \E p \in Providers, u \in UserIdParams, id \in {EmptyId, "id1"},
          now \in Clock : DeletePost(p, u, id, now)
    \/ \E p \in Providers, u \in UserIdParams, now \in Clock, later \in Clock :
         later >= now /\ TokenValidity(p, u, now, later)
    \/ \E p \in Providers, u \in Users, now \in Clock, later \in Clock :
         later >= now /\ GetTokenValidity(p, u, now, later)
    \/ \E p \in Providers, u \in Users, now \in Clock : IsConnected(p, u, now)
    \/ \E u \in Users, now \in Clock : VerifyCredentials(u, now)
    \/ \E path \in Paths, api_key \in ApiKeys : VerifyApiKey(path, api_key)

SpecCtl == InitCtl /\ [][NextCtl]_vars

\* =================================================================== claims
\* The step just taken is a call of handler `op` of provider p.
Step(op, p) == last'.op = op /\ last'.provider = p

HasCredentials(p, u) == u \in DOMAIN users /\ users[u][p] # NULL
Pending(p, u) == u \in DOMAIN states[p]
\* Some entry of handler p's state table carries state value s.
Matches(p, s) == \E u \in DOMAIN states[p] : states[p][u].state = s
Succeeded == {"ok", "status200"}

\* C1: for every provider and every user with stored credentials, a
\* disconnect(user) that meets no storage error succeeds and leaves neither
\* credentials nor an OAuth state entry for the user, whether or not a
\* pending state existed.
C1_DisconnectDisconnects ==
    [][\A p \in Providers, u \in Users :
          (Step("disconnect", p) /\ last'.user = u /\ HasCredentials(p, u)
             /\ ~last'.dberr)
          => /\ last'.outcome \in Succeeded
             /\ ~HasCredentials(p, u)'
             /\ ~Pending(p, u)']_vars

\* C2: disconnect for a user who was never connected (no credentials, no
\* pending state) gives no error outcome and changes neither the credential
\* store nor the state table.
C2_DisconnectNeverConnected ==
    [][\A p \in Providers, u \in Users :
          (Step("disconnect", p) /\ last'.user = u /\ ~HasCredentials(p, u)
             /\ ~Pending(p, u) /\ ~last'.dberr)
          => /\ last'.outcome \in Succeeded
             /\ users' = users
             /\ states' = states]_vars

\* C3: when the callback resolved its state to a user and then answers with
\* the failure page, the user's state entry is gone: the state value no
\* longer resolves and the user is not left pending.
C3_FailureClearsState ==
    [][\A p \in Providers :
          (Step("complete", p) /\ last'.outcome = "failure_page")
          => /\ get_user_id_from_state(states'[p], last'.state).value = NoneId
             /\ last'.user \notin DOMAIN states'[p]]_vars

\* C4: states are single-use on success: a state for which the callback
\* returned the success page never resolves again, and a later callback
\* carrying it is answered with the invalid-state redirect without touching
\* the credential store.
C4_SingleUseOnSuccess ==
    [][/\ \A ps \in used' :
            get_user_id_from_state(states'[ps[1]], ps[2]).value = NoneId
       /\ \A p \in Providers :
            (Step("complete", p) /\ <<p, last'.state>> \in used)
            => /\ last'.outcome = "redirect"
               /\ users' = users
               /\ last'.db = <<>>]_vars

C4_Witness ==
    /\ last.op = "complete"
    /\ last.outcome = "redirect"
    /\ <<last.provider, last.state>> \in used

\* C5: a callback whose state matches no entry of the state table (a missing
\* state parameter included) is answered with the redirect, raises nothing
\* and leaves the credential store and the state table unchanged.
C5_UnknownStateRedirects ==
    [][\A p \in Providers :
          (Step("complete", p) /\ ~Matches(p, last'.state))
          => /\ last'.outcome = "redirect"
             /\ users' = users
             /\ conn' = conn
             /\ states' = states
             /\ last'.db = <<>>]_vars

C5_Witness ==
    /\ last.op = "complete"
    /\ last.outcome = "redirect"
    /\ last.state = None
    /\ DOMAIN states[last.provider] # {}

\* C6: a second authorize(u) on the same handler issues a different state,
\* which resolves to u while the first no longer resolves; a callback
\* carrying the overwritten state is answered with the redirect.
C6_SecondAuthorizeOverwrites ==
    [][\A p \in Providers :
          /\ \A u \in Users :
               (Step("authorize", p) /\ last'.user = u
                  /\ last'.outcome = "url" /\ Pending(p, u))
               => LET s1 == states[p][u].state
                      s2 == last'.state
                  IN  /\ s1 # s2
                      /\ get_user_id_from_state(states'[p], s2).value = u
                      /\ get_user_id_from_state(states'[p], s1).value = NoneId
          /\ (Step("complete", p) /\ <<p, last'.state>> \in stale)
               => last'.outcome = "redirect"]_vars

C6_Witness ==
    /\ last.op = "complete"
    /\ last.outcome = "redirect"
    /\ <<last.provider, last.state>> \in stale

\* C7: authorize with an empty or missing user_id fails with the 400 error
\* and stores no state; authorize never reads or writes the credential store.
C7_AuthorizeMissingUser ==
    [][\A p \in Providers :
          Step("authorize", p)
          => /\ last'.user \in {NoneId, EmptyId}
                  => (last'.outcome = "http400" /\ states' = states)
             /\ users' = users
             /\ conn' = conn
             /\ last'.db = <<>>]_vars

C7_Witness ==
    /\ last.op = "authorize"
    /\ last.user = EmptyId
    /\ last.outcome = "http400"

\* C8: once clear_state(u) has removed the entry store_state(u, s) made,
\* get_user_id_from_state(s) and get_code_verifier_from_state(s) both return
\* None, and neither raises.
C8_ClearedStateUnresolvable ==
    [][\A p \in Providers, u \in Users :
          (last'.provider = p /\ last'.user = u /\ last'.clear = "deleted"
             /\ Pending(p, u))
          => LET s  == states[p][u].state
                 r  == get_user_id_from_state(states'[p], s)
                 cv == get_code_verifier_from_state(states'[p], s)
             IN  /\ ~r.raised /\ r.value = NoneId
                 /\ ~cv.raised /\ cv.value = None]_vars

C8_Witness ==
    /\ last.provider = "twitter"
    /\ last.clear = "deleted"
    /\ last.user \in Users
    /\ ~Pending("twitter", last.user)

C10_CallbackContainsFailures ==
    last.op = "complete"
    => last.outcome \in {"redirect", "success_page", "failure_page"}

C10_Witness ==
    /\ last.op = "complete"
    /\ last.outcome = "failure_page"
    /\ last.dberr

\* ------------------------------------------ Credential Store claims (C11..)
\* The {p}_credentials column of user u, NULL when u has no row.
CellOf(tbl, u, p) == IF u \in DOMAIN tbl THEN tbl[u][p] ELSE NULL
\* The call before this step / this step is a Database call that returned.
Was(op, u, p) ==
    last.op = op /\ last.user = u /\ last.provider = p /\ last.outcome = "ok"
Is(op, u, p) == last'.op = op /\ last'.user = u /\ last'.provider = p
\* cur.execute of this step ran against a usable connection and worked.
SqlWorks == conn # "aborted" /\ last'.fault # "sql"

UpsertFrame ==
    \A u \in Users, p \in Providers :
       (Is("db_store", u, p) /\ last'.outcome = "ok")
       => /\ DOMAIN users' = DOMAIN users \cup {u}
          /\ \A v \in Users, q \in Providers :
                <<v, q>> # <<u, p>> => CellOf(users', v, q) = CellOf(users, v, q)
          /\ (Was("db_store", u, p) /\ last.arg = last'.arg)
                => \A v \in Users, q \in Providers :
                      decrypt_data(CellOf(users', v, q))
                        = decrypt_data(CellOf(users, v, q))

C13_GetNoneOnlyWhenAbsent ==
    [][\A u \in Users, p \in Providers :
          Is("db_get", u, p)
          => /\ (CellOf(users, u, p) = NULL /\ SqlWorks)
                  => (last'.outcome = "ok" /\ last'.value = PyNone)
             /\ (last'.outcome = "ok" /\ last'.value = PyNone)
                  => CellOf(users, u, p) = NULL
             /\ (CellOf(users, u, p) # NULL /\ SqlWorks /\ last'.fault = "crypto")
                  => last'.outcome = "raised"]_vars

C13_Witness ==
    /\ last.op = "db_get"
    /\ last.fault = "crypto"
    /\ last.outcome = "raised"
    /\ CellOf(users, last.user, last.provider) # NULL

\* C14: delete of an absent credential (no row, or a null column) raises
\* nothing and changes nothing; after a delete, get returns None.
C14_DeleteIdempotent ==
    [][\A u \in Users, p \in Providers :
          /\ (Is("db_delete", u, p) /\ SqlWorks)
               => /\ last'.outcome = "ok"
                  /\ CellOf(users', u, p) = NULL
                  /\ CellOf(users, u, p) = NULL => users' = users
          /\ (Was("db_delete", u, p) /\ Is("db_get", u, p) /\ SqlWorks)
               => (last'.outcome = "ok" /\ last'.value = PyNone)]_vars

\* A delete for a user whose row holds the other provider's credentials only.
C14_Witness ==
    /\ last.op = "db_delete"
    /\ last.outcome = "ok"
    /\ last.user \in DOMAIN users
    /\ \E q \in Providers \ {last.provider} : users[last.user][q] # NULL

\* --------------------------------------- Expiry and refresh claims (C15..)
\* The expiration marker a credentials value carries for provider p, Missing
\* when the value is None, is not JSON, or has no such key.
MarkerOf(p, v) ==
    LET d   == IF v.t = "str" /\ "json" \in DOMAIN v THEN v.json ELSE v
        key == IF p = "threads" THEN "expiration" ELSE "expires_at"
    IN  IF d.t = "dict" /\ key \in DOMAIN d.id THEN d.id[key] ELSE Missing
\* The marker is in the provider's format: microsecond ISO-8601 text with an
\* offset (Threads), an epoch number (Twitter).
Parses(p, m) ==
    IF p = "threads" THEN m.t = "str" /\ "iso" \in DOMAIN m ELSE m.t = "num"
InstantOf(p, m) == IF p = "threads" THEN m.iso ELSE m.v
\* The credentials value carries a non-empty refresh_token.
HasRefreshToken(v) ==
    /\ v.t = "dict"
    /\ "refresh_token" \in DOMAIN v.id
    /\ v.id["refresh_token"] \notin {PyNone, PyStr("")}
\* This step is a call of op that read the store without a fault.
ReadWorked(op, p, u) ==
    /\ Is(op, u, p)
    /\ conn # "aborted"
    /\ last'.env.read = "ok"

\* C15: check_credentials_expiration returns true when the stored marker is
\* 1 second before the clock reading and false when it is 1 hour after it,
\* for both providers.
C15_ExpiredBeforeNotAfter ==
    [][\A p \in Providers, u \in Users :
          LET m == MarkerOf(p, last'.arg)
          IN  (ReadWorked("check_credentials_expiration", p, u) /\ Parses(p, m))
              => /\ last'.outcome = "ok"
                 /\ InstantOf(p, m) = last'.now - Sec(1)
                      => last'.result = PyBool(TRUE)
                 /\ InstantOf(p, m) = last'.now + Sec(3600)
                      => last'.result = PyBool(FALSE)]_vars

\* A Threads check of a marker one hour ahead that answered false.
C15_Witness ==
    /\ last.op = "check_credentials_expiration"
    /\ last.provider = "threads"
    /\ Parses("threads", MarkerOf("threads", last.arg))
    /\ MarkerOf("threads", last.arg).iso = last.now + Sec(3600)
    /\ last.result = PyBool(FALSE)

\* C16: check_credentials_expiration returns true and does not raise when
\* the credentials are absent or the marker is missing or does not parse.
C16_ExpiredFailSafe ==
    [][\A p \in Providers, u \in Users :
          (/\ ReadWorked("check_credentials_expiration", p, u)
           /\ \/ CellOf(users, u, p) = NULL
              \/ ~Parses(p, MarkerOf(p, last'.arg)))
          => (last'.outcome = "ok" /\ last'.result = PyBool(TRUE))]_vars

\* A check of stored credentials whose marker does not parse.
C16_Witness ==
    /\ last.op = "check_credentials_expiration"
    /\ CellOf(users, last.user, last.provider) # NULL
    /\ MarkerOf(last.provider, last.arg) \in
          {PyStr("soon"), PyStr("2025-04-09T09:06:20+00:00")}
    /\ last.result = PyBool(TRUE)

\* C17: calculate_expiration_time returns a non-negative integer: the whole
\* seconds remaining when the marker lies ahead, 0 when it lies behind, 0
\* when it is missing or malformed.
C17_SecondsRemaining ==
    [][\A p \in Providers :
          (last'.op = "calculate_expiration_time" /\ last'.provider = p)
          => LET m == MarkerOf(p, last'.arg)
                 s == last'.result.v
             IN  /\ last'.result.t = "int"
                 /\ s >= 0
                 /\ IF Parses(p, m) /\ InstantOf(p, m) > last'.now
                    THEN /\ Sec(s) <= InstantOf(p, m) - last'.now
                         /\ InstantOf(p, m) - last'.now < Sec(s + 1)
                    ELSE s = 0]_vars

\* A call on a marker that lies a day behind the clock.
C17_Witness ==
    /\ last.op = "calculate_expiration_time"
    /\ Parses(last.provider, MarkerOf(last.provider, last.arg))
    /\ InstantOf(last.provider, MarkerOf(last.provider, last.arg))
          = last.now - Sec(86400)
    /\ last.result = PyInt(0)

\* C18: Twitter can_refresh_token is true exactly when a refresh_token is
\* present and the clock is at most 86400 s past expires_at.
C18_RefreshableWithinDay ==
    [][LET m == MarkerOf("twitter", last'.arg)
       IN  (/\ last'.op = "can_refresh_token"
            /\ last'.provider = "twitter"
            /\ Parses("twitter", m))
           => last'.result = PyBool(/\ HasRefreshToken(last'.arg)
                                    /\ last'.now - m.v <= Sec(86400))]_vars

\* C19: with a refresh_token and expires_at an hour ahead, can_refresh_token
\* is true, refresh_token(user) reaches the provider exchange, and when the
\* exchange succeeds it returns true with the store holding the new
\* credentials in place of the old.
C19_RefreshStoresNew ==
    [][LET m == MarkerOf("twitter", last'.arg)
           fresh == /\ HasRefreshToken(last'.arg)
                    /\ Parses("twitter", m)
                    /\ m.v = last'.now + Sec(3600)
       IN  /\ (last'.op = "can_refresh_token" /\ last'.provider = "twitter"
               /\ fresh)
                => last'.result = PyBool(TRUE)
           /\ \A u \in Users :
                (ReadWorked("refresh_token", "twitter", u) /\ fresh)
                => /\ last'.env.exchange # "none"
                   /\ (last'.env.exchange = "ok" /\ last'.env.write = "ok")
                        => /\ last'.outcome = "ok"
                           /\ last'.result = PyBool(TRUE)
                           /\ last'.stored \in NewCredentials
                           /\ last'.stored # last'.arg
                           /\ decrypt_data(CellOf(users', u, "twitter"))
                                = last'.stored]_vars

\* A refresh that returned true and left the new token in the store.
C19_Witness ==
    /\ last.op = "refresh_token"
    /\ last.result = PyBool(TRUE)
    /\ MarkerOf("twitter", last.arg) = PyNum(last.now + Sec(3600))
    /\ decrypt_data(CellOf(users, last.user, "twitter")) \in NewCredentials

\* C20: refresh_token(user) never raises: it returns true or false, true
\* only with new credentials persisted, false with the store unchanged.
C20_RefreshNeverRaises ==
    [][\A u \in Users :
          Is("refresh_token", u, "twitter")
          => /\ last'.outcome = "ok"
             /\ last'.result \in {PyBool(TRUE), PyBool(FALSE)}
             /\ last'.result = PyBool(TRUE)
                  => /\ last'.stored \in NewCredentials
                     /\ decrypt_data(CellOf(users', u, "twitter")) = last'.stored
             /\ last'.result = PyBool(FALSE) => users' = users]_vars

\* ------------------------------------------------------ the expiry reads
\* The rows of InitToken, while u2 has an authorization pending with each
\* provider.
InitReads ==
    /\ states = [p \in Providers |->
                   store_state(EmptyDict, "u2", IF p = "threads" THEN 1 ELSE 2,
                               IF p = "threads" THEN None ELSE 2)]
    /\ \E th \in ThreadsPayloads \cup {PyNone}, tw \in TwitterPayloads \cup {PyNone} :
         /\ th = PyNone \/ tw = PyNone
         /\ LET a == IF th = PyNone THEN EmptyDict
                     ELSE db_store_user_credentials(EmptyDict, "idle", "u1", th,
                                                    "threads", "ok").users
            IN  users = IF tw = PyNone THEN a
                        ELSE db_store_user_credentials(a, "idle", "u1", tw,
                                                       "twitter", "ok").users
    /\ conn = "idle"
    /\ nextState = 3
    /\ used = {}
    /\ stale = {}
    /\ last = NoCall

\* The four reads of the handlers.
NextReads ==
    \/ \E p \in Providers, u \in Users, now \in Clock :
         CheckCredentialsExpiration(p, u, now)
    \/ \E p \in Providers, now \in Clock :
         \E credentials \in CredentialsArgs(p) :
            CalculateExpirationTime(p, credentials, now)
    \/ \E p \in Providers, now \in Clock :
         \E credentials \in CredentialsArgs(p) :
            CanRefreshToken(p, credentials, now)
    \/ \E p \in Providers, u \in Users, now \in Clock, later \in Clock :
         later >= now /\ GetTokenValidity(p, u, now, later)

SpecReads == InitReads /\ [][NextReads]_vars

\* ------------------------------------------- requests of two users at once
\* The credentials the token endpoints issue: expired or valid at T0.
IssuedBy(p) ==
    IF p = "threads" THEN CtlPayloads("threads")
    ELSE {PyDict(TwitterFields(PyNum(k), PyStr("r1"), "tokA")) :
             k \in CtlInstants}

\* Every operation that takes a user, the requests of the users interleaved.
NextUsers ==
    \/ \E u \in Users : ThreadsAuthorize(u)
    \/ \E u \in Users : TwitterAuthorize(u)
    \/ \E s \in StateParams : ThreadsCallback(s, IssuedBy("threads"))
    \/ \E s \in StateParams : TwitterCallback(s, IssuedBy("twitter"))
    \/ \E u \in Users : ThreadsDisconnect(u)
    \/ \E u \in Users : TwitterDisconnect(u)
    \/ \E p \in Providers, u \in Users : IsConnected(p, u, T0)
    \/ \E u \in Users : RefreshToken(u, T0)
    \/ \E u \in Users : VerifyCredentials(u, T0)
    \/ \E p \in Providers, u \in Users : GetUserAccount(p, u, T0)
    \/ \E u \in Users : ThreadsPost(u, T0)
    \/ \E u \in Users : TwitterPost(u, FALSE, T0)
    \/ \E p \in Providers, u \in Users : DeletePost(p, u, "id1", T0)
    \/ \E p \in Providers, u \in Users : TokenValidity(p, u, T0, T0)

SpecUsers == Init /\ [][NextUsers]_vars

\* ---------------------------------------------------------- process restart
\* Mutant: the state tables outlive the process.
init_keeps_states(tables) == tables

\* AuthHandlerBase.__init__ of every handler: `self.states = {}`.
init_states(tables) == [p \in Providers |-> EmptyDict]

\* The pending states of the tables, tagged as dropped by a restart.
Dropped(tables) ==
    UNION {{<<p, tables[p][u].state, "restart">> : u \in DOMAIN tables[p]}
           : p \in Providers}

\* The process stops and starts again: the modules are imported anew, every
\* handler is constructed with an empty table and Database() connects; the
\* rows of table users stay in PostgreSQL.
Restart ==
    /\ states' = init_states(states)
    /\ conn' = "idle"
    /\ stale' = stale \cup Dropped(states)
    /\ last' = Call("restart", "none", NoneId, None, "none", "none", <<>>,
                    FALSE)
    /\ UNCHANGED <<users, nextState, used>>

NextRestart ==
    \/ Next
    \/ Restart

SpecRestart == Init /\ [][NextRestart]_vars

\* ------------------------------------------- Social Controller claims (C21..)
\* The credentials get returns for (u, p), PyNone when nothing is stored.
StoredOf(tbl, u, p) == decrypt_data(CellOf(tbl, u, p))
\* The stored marker of (u, p) parses and lies before the instant now.
StoredExpired(u, p, now) ==
    LET m == MarkerOf(p, StoredOf(users, u, p))
    IN  /\ CellOf(users, u, p) # NULL
        /\ Parses(p, m)
        /\ InstantOf(p, m) < now
\* The call answered with the translation of a storage exception.
StorageFailed == last'.resp.body.message = "http_exception"
\* The operations of the two Social Controllers.
ControllerOps == {"get_user_account", "post", "delete_post", "token_validity"}

\* C21: expired Twitter credentials that carry a refresh_token are deleted
\* only by a disconnect or after a refresh was attempted and failed.
C21_NoDeleteWhileRefreshable ==
    [][\A u \in Users :
          (/\ CellOf(users, u, "twitter") # NULL
           /\ CellOf(users', u, "twitter") = NULL
           /\ HasRefreshToken(StoredOf(users, u, "twitter"))
           /\ StoredExpired(u, "twitter", last'.now))
          => (last'.op = "disconnect" \/ last'.refresh = "failed")]_vars

\* C22: for a user without stored Threads credentials get_user_account
\* answers status "missing" with code 404, calls no provider and leaves the
\* store as it is.
C22_NeverConnectedIsMissing ==
    [][\A u \in Users :
          (/\ Is("get_user_account", u, "threads")
           /\ CellOf(users, u, "threads") = NULL
           /\ ~StorageFailed)
          => /\ last'.resp.kind = "response"
             /\ last'.resp.status_code = PyInt(404)
             /\ last'.resp.body.code = PyInt(404)
             /\ last'.resp.body.status = "missing"
             /\ last'.calls = <<>>
             /\ users' = users]_vars

\* C23: for a Threads user whose stored expiration has passed
\* get_user_account deletes the credentials and answers status "expired"
\* with code 401.
C23_ExpiredIsExpired ==
    [][\A u \in Users :
          (/\ Is("get_user_account", u, "threads")
           /\ StoredExpired(u, "threads", last'.now)
           /\ ~StorageFailed)
          => /\ StoredOf(users', u, "threads") = PyNone
             /\ last'.resp.kind = "response"
             /\ last'.resp.status_code = PyInt(401)
             /\ last'.resp.body.code = PyInt(401)
             /\ last'.resp.body.status = "expired"]_vars

\* C24: every Social Controller method answers with the envelope; no
\* exception leaves get_user_account, post, delete_post or token_validity.
C24_NoExceptionEscapes ==
    [][last'.op \in ControllerOps
          => /\ last'.resp.kind = "response"
             /\ last'.resp.body.status \in {"success", "error", "missing",
                                            "expired"}
             /\ last'.resp.body.platform = last'.provider]_vars

\* The Twitter client call of this step raised.
TwitterRejected ==
    /\ last'.op \in ControllerOps
    /\ last'.provider = "twitter"
    /\ last'.calls # <<>>
    /\ last'.calls[Len(last'.calls)].result = "raised"

\* C25: error code 88 maps to rate_limit, and when the Twitter provider
\* rejects a request the response carries HTTP status 500 or 502.
C25_ProviderErrorIs5xx ==
    [][/\ handle_twitter_error(Exc("PyTwitterError", PyNone, PyInt(88))).status
            = "rate_limit"
       /\ TwitterRejected
            => /\ last'.resp.kind = "response"
               /\ last'.resp.status_code \in {PyInt(500), PyInt(502)}]_vars

\* The order in which ThreadsController.post is to call the provider.
PublishOrder ==
    <<"create_container", "container_status", "publish_container",
      "container_status", "thread">>
\* The container was created and the publish step failed: publish_container
\* raised, or the status seen after it is not PUBLISHED.
PublishFailed ==
    /\ last'.op = "post"
    /\ last'.provider = "threads"
    /\ Len(last'.calls) \in {3, 4}
    /\ last'.calls[1] = Saw("create_container", "id")
    /\ \/ last'.calls[Len(last'.calls)] = Saw("publish_container", "raised")
       \/ /\ Len(last'.calls) = 4
          /\ last'.calls[4].result \in ContainerStatus \ {"PUBLISHED"}
\* What the same request answers when the container cannot be created.
CreateFailedResponses ==
    {o.resp : o \in {x \in threads_post(users, conn, last'.user, last'.now) :
                       /\ x.calls # <<>>
                       /\ x.calls[1].result \in {"raised", "none"}}}

\* C26: Threads post calls the provider in the fixed order, reports success
\* only after FINISHED before and PUBLISHED after the publish, and answers a
\* failed publish of a created container differently from a failed creation
\* and from the generic failure.
C26_PublishFailureIsItsOwnState ==
    [][(last'.op = "post" /\ last'.provider = "threads")
          => /\ \A i \in 1..Len(last'.calls) :
                   last'.calls[i].call = PublishOrder[i]
             /\ (last'.resp.kind = "response"
                 /\ last'.resp.body.status = "success")
                   => /\ Len(last'.calls) = 5
                      /\ last'.calls[2].result = "FINISHED"
                      /\ last'.calls[4].result = "PUBLISHED"
             /\ PublishFailed
                   => /\ last'.resp \notin CreateFailedResponses
                      /\ last'.resp \notin
                           handle_exception("threads", SdkError,
                                            "posting thread")]_vars

C29_ValidityComposed ==
    [][\A u \in Users, p \in Providers :
          (Is("get_token_validity", u, p) /\ last'.resp.kind = "value")
          => LET credentials == StoredOf(users, u, p)
                 v == last'.result.value
                 later == last'.result.later
             IN  /\ v.platform = p
                 /\ IF credentials = PyNone
                    THEN v = Validity(FALSE, 0, FALSE, p)
                    ELSE IF expired(p, credentials, last'.now)
                    THEN /\ v.valid = FALSE
                         /\ v.expires_in = 0
                         /\ v.refresh_possible
                              = can_refresh_token(p, credentials, later)
                    ELSE /\ v.valid = TRUE
                         /\ v.expires_in
                              = calculate_expiration_time(p, credentials, later)
                         /\ v.refresh_possible
                              = can_refresh_token(p, credentials, later)]_vars
\* Expired Twitter credentials were reported invalid and refreshable.
C29_Witness ==
    /\ last.op = "get_token_validity"
    /\ last.provider = "twitter"
    /\ last.resp.kind = "value"
    /\ last.result.value.valid = FALSE
    /\ last.result.value.refresh_possible = TRUE

\* C30: a restart empties the state table of every handler and leaves the
\* stored credentials as they are; a callback with a state that was pending
\* when the process restarted is answered with the redirect, without a
\* database call and without a change of the store.
C30_RestartInvalidatesStates ==
    [][/\ last'.op = "restart"
            => /\ \A p \in Providers : DOMAIN states'[p] = {}
               /\ users' = users
       /\ (/\ last'.op = "complete"
           /\ <<last'.provider, last'.state, "restart">> \in stale)
            => /\ last'.outcome = "redirect"
               /\ last'.db = <<>>
               /\ users' = users
               /\ states' = states]_vars
\* A callback with a state from before the restart was redirected while a
\* user connected before the restart still has credentials stored.
C30_Witness ==
    /\ last.op = "complete"
    /\ <<last.provider, last.state, "restart">> \in stale
    /\ last.outcome = "redirect"
    /\ \E u \in Users, p \in Providers : CellOf(users, u, p) # NULL

\* C28: a step of an operation performed for one user leaves the pending
\* OAuth state entry and the stored credentials of every other user as they
\* were.
C28_OtherUsersUntouched ==
    [][\A v \in Users \ {last'.user} : \A p \in Providers :
          /\ v \in DOMAIN states'[p] <=> v \in DOMAIN states[p]
          /\ v \in DOMAIN states[p] => states'[p][v] = states[p][v]
          /\ CellOf(users', v, p) = CellOf(users, v, p)]_vars
\* An operation for one user deleted its expired credentials while the other
\* user has credentials stored.
C28_Witness ==
    /\ last.op \in {"get_user_account", "is_connected", "post"}
    /\ last.deleted
    /\ \E v \in Users \ {last.user} :
          \E p \in Providers : CellOf(users, v, p) # NULL

\* C31: when a Credential Store call returns, with a result or with an
\* error, the shared connection has no open and no aborted transaction.
C31_CallEndsTransaction ==
    [][last'.op \in {"db_store", "db_get", "db_delete"}
          => conn' = "idle"]_vars

\* The reads of the handlers that take no part in changing anything.
PureReads ==
    {"check_credentials_expiration", "calculate_expiration_time",
     "can_refresh_token", "get_token_validity"}

\* C32: check_credentials_expiration, calculate_expiration_time,
\* can_refresh_token and get_token_validity leave the stored credentials
\* and the OAuth state tables as they are and call no provider.
C32_ReadsChangeNothing ==
    [][last'.op \in PureReads
          => /\ users' = users
             /\ states' = states
             /\ IF last'.op = "get_token_validity"
                THEN last'.calls = <<>>
                ELSE last'.env.exchange = "none"]_vars
\* get_token_validity reported expired credentials that are still stored,
\* while an authorization is pending.
C32_Witness ==
    /\ last.op = "get_token_validity"
    /\ last.resp.kind = "value"
    /\ ~last.result.value.valid
    /\ CellOf(users, last.user, last.provider) # NULL
    /\ \E p \in Providers : DOMAIN states[p] # {}

\* C33: get_user_account, post and delete_post of both providers call the
\* provider only when credentials are stored and either they are not
\* expired at the check, or they were expired, the refresh succeeded and
\* the row holds the refreshed credentials.
C33_CheckThenAct ==
    [][\A u \in Users, p \in Providers :
          (/\ last'.op \in {"get_user_account", "post", "delete_post"}
           /\ last'.user = u
           /\ last'.provider = p
           /\ last'.calls # <<>>)
          => /\ CellOf(users, u, p) # NULL
             /\ \/ /\ ~expired(p, StoredOf(users, u, p), last'.now)
                   /\ last'.refresh = "none"
                   /\ users' = users
                \/ /\ expired(p, StoredOf(users, u, p), last'.now)
                   /\ last'.refresh = "ok"
                   /\ CellOf(users', u, p)
                        \notin {NULL, CellOf(users, u, p)}]_vars
\* A tweet was posted with credentials refreshed in the same request.
C33_Witness ==
    /\ last.op = "post"
    /\ last.provider = "twitter"
    /\ last.refresh = "ok"
    /\ last.calls # <<>>
    /\ last.resp.kind = "response"
    /\ last.resp.body.status = "success"

\* C34: a step of an operation on one provider leaves the credentials every
\* user has stored for the other provider as they are.
C34_OtherProviderUntouched ==
    [][\A u \in Users, p \in Providers \ {last'.provider} :
          CellOf(users', u, p) = CellOf(users, u, p)]_vars
\* Expired credentials of one provider were deleted while the user stays
\* connected to the other provider.
C34_Witness ==
    /\ last.op \in {"is_connected", "get_user_account"}
    /\ last.deleted
    /\ CellOf(users, last.user, last.provider) = NULL
    /\ \E p \in Providers \ {last.provider} :
          CellOf(users, last.user, p) # NULL

\* C36: complete_authorization answers with the success page exactly when
\* its credential write was done, and the row of the resolved user then
\* holds credentials; with the failure page or the redirect the stored
\* credentials are what they were before the call.
C36_PageAgreesWithStore ==
    [][last'.op = "complete"
          => /\ last'.outcome = "success_page"
                  <=> (last'.db = <<"store">> /\ ~last'.dberr)
             /\ last'.outcome = "success_page"
                  => CellOf(users', last'.user, last'.provider) # NULL
             /\ last'.outcome # "success_page" => users' = users]_vars
\* The callback of a user who is already connected failed at the write.
C36_Witness ==
    /\ last.op = "complete"
    /\ last.outcome = "failure_page"
    /\ last.db = <<"store">>
    /\ last.dberr
    /\ CellOf(users, last.user, last.provider) # NULL

\* C37: is_connected returns true exactly when credentials are stored and
\* not expired, and then changes nothing; whenever it returned false, the
\* row holds no credentials of the provider afterwards.
C37_IsConnectedAgreesWithStore ==
    [][\A u \in Users, p \in Providers :
          (Is("is_connected", u, p) /\ last'.resp.kind = "value")
          => LET connected ==
                    /\ CellOf(users, u, p) # NULL
                    /\ ~expired(p, StoredOf(users, u, p), last'.now)
             IN  /\ last'.result = PyBool(connected)
                 /\ connected => users' = users
                 /\ ~connected => CellOf(users', u, p) = NULL]_vars
\* is_connected found expired credentials, deleted them and returned false.
C37_Witness ==
    /\ last.op = "is_connected"
    /\ last.resp.kind = "value"
    /\ last.result = PyBool(FALSE)
    /\ last.deleted
    /\ CellOf(users, last.user, last.provider) = NULL

\* C38: at one clock reading the expiry primitives agree: credentials that
\* check_credentials_expiration reports expired have a remaining time of 0
\* from calculate_expiration_time, and get_token_validity never answers
\* valid = false with expires_in > 0.
C38_ExpiryPrimitivesAgree ==
    [][/\ (/\ last'.op = "check_credentials_expiration"
           /\ last'.result = PyBool(TRUE))
            => calculate_expiration_time(last'.provider, last'.arg, last'.now) = 0
       /\ (/\ last'.op = "calculate_expiration_time"
           /\ expired(last'.provider, last'.arg, last'.now))
            => last'.result = PyInt(0)
       /\ (/\ last'.op = "get_token_validity"
           /\ last'.resp.kind = "value"
           /\ ~last'.result.value.valid)
            => last'.result.value.expires_in = 0]_vars
\* Stored credentials whose marker parses were reported expired.
C38_Witness ==
    /\ last.op = "check_credentials_expiration"
    /\ last.result = PyBool(TRUE)
    /\ CellOf(users, last.user, last.provider) # NULL
    /\ ~loads_raises(last.arg)
    /\ IF last.provider = "threads"
       THEN ~strptime_raises(dict_get(loaded(last.arg), "expiration", PyNone))
       ELSE dict_get(loaded(last.arg), "expires_at", PyNone).t = "num"

====
